---------------------------- MODULE Spec2Model ----------------------------
(***************************************************************************)
(* Model of the balanzia backend (src/backend/server.js): the CSV upload   *)
(* endpoint POST /api/upload, its normalisation of parsed rows, the        *)
(* identity hash, the existence query and the bulk insert against the      *)
(* transactions table.                                                     *)
(*                                                                         *)
(* Conventions.  A CSV cell is the text between two delimiters, modelled   *)
(* as a sequence of one-character strings (dates, amounts) or as a string  *)
(* (merchant, account names); the value NoColumn stands for a column the   *)
(* file does not have.  JavaScript values are tagged records: t is the     *)
(* type tag ("str", "num", "nan", "inf", "null", "undef").  Amounts are    *)
(* numbers of cents.                                                       *)
(***************************************************************************)
EXTENDS Integers, Sequences, FiniteSets, TLC

\* ------------------------------------------------------------------------
\* Bounds of the model
\* ------------------------------------------------------------------------

\* number of POST /api/upload requests in one behaviour
MaxUploads == 2

\* number of data lines of an uploaded file
MaxRows == 2

\* number of distinct catalogue rows the files of one behaviour are made of
PoolSize == 2

\* ------------------------------------------------------------------------
\* JavaScript values
\* ------------------------------------------------------------------------

JSUndef == [t |-> "undef", s |-> "", n |-> 0, cs |-> <<>>]

JSNull == [t |-> "null", s |-> "", n |-> 0, cs |-> <<>>]

JSNaN == [t |-> "nan", s |-> "", n |-> 0, cs |-> <<>>]

\* Infinity (n = 1) and -Infinity (n = -1)
JSInf(sign) == [t |-> "inf", s |-> "", n |-> sign, cs |-> <<>>]

JSNum(c) == [t |-> "num", s |-> "", n |-> c, cs |-> <<>>]

\* a string known by its name (merchant, account)
JSStr(str) == [t |-> "str", s |-> str, n |-> 0, cs |-> <<>>]

\* a string known by its characters (date and amount cells)
JSText(chars) == [t |-> "str", s |-> "", n |-> 0, cs |-> chars]

\* JavaScript truthiness, as used by the || of lines 159-161
Truthy(v) ==
    CASE v.t = "undef" -> FALSE
      [] v.t = "null" -> FALSE
      [] v.t = "nan" -> FALSE
      [] v.t = "num" -> v.n # 0
      [] v.t = "inf" -> TRUE
      [] OTHER -> v.s # "" \/ v.cs # <<>>

\* a || b
Or(a, b) == IF Truthy(a) THEN a ELSE b

\* ------------------------------------------------------------------------
\* Scanning of cell text
\* ------------------------------------------------------------------------

Digits == {"0", "1", "2", "3", "4", "5", "6", "7", "8", "9"}

DigitVal(c) ==
    CASE c = "0" -> 0 [] c = "1" -> 1 [] c = "2" -> 2 [] c = "3" -> 3
      [] c = "4" -> 4 [] c = "5" -> 5 [] c = "6" -> 6 [] c = "7" -> 7
      [] c = "8" -> 8 [] c = "9" -> 9

\* first position at or after i that does not hold a digit
RECURSIVE DigitsEnd(_, _)
DigitsEnd(cs, i) ==
    IF i <= Len(cs) /\ cs[i] \in Digits THEN DigitsEnd(cs, i + 1) ELSE i

\* decimal value of the digits cs[i] .. cs[j-1]
RECURSIVE NumVal(_, _, _)
NumVal(cs, i, j) ==
    IF j <= i THEN 0 ELSE NumVal(cs, i, j - 1) * 10 + DigitVal(cs[j - 1])

AllDigits(cs, i, j) == \A k \in i..j : k <= Len(cs) /\ cs[k] \in Digits

\* the parts of a decimal literal at the head of cs: a sign, the integer
\* digits, a dot and the fraction digits
Literal(cs, signs) ==
    LET s == IF Len(cs) >= 1 /\ cs[1] \in signs THEN 2 ELSE 1
        e1 == DigitsEnd(cs, s)
        hasDot == e1 <= Len(cs) /\ cs[e1] = "."
        e2 == IF hasDot THEN DigitsEnd(cs, e1 + 1) ELSE e1
        hasInt == e1 > s
        hasFrac == hasDot /\ e2 > e1 + 1
        f1 == IF hasFrac THEN DigitVal(cs[e1 + 1]) ELSE 0
        f2 == IF hasFrac /\ e2 > e1 + 2 THEN DigitVal(cs[e1 + 2]) ELSE 0
    IN  [ok |-> hasInt \/ hasFrac,
         end |-> IF hasInt \/ hasFrac THEN e2 ELSE 1,
         neg |-> s = 2 /\ cs[1] = "-",
         cents |-> NumVal(cs, s, e1) * 100 + f1 * 10 + f2]

InfinityText == <<"I", "n", "f", "i", "n", "i", "t", "y">>

\* the text, after an optional sign, starts with Infinity
IsInfinityText(cs) ==
    LET s == IF Len(cs) >= 1 /\ cs[1] \in {"-", "+"} THEN 2 ELSE 1
    IN  /\ Len(cs) >= s + 7
        /\ SubSeq(cs, s, s + 7) = InfinityText

\* parseFloat of a string: the longest decimal literal at its head, which can
\* be Infinity, NaN when there is none; what follows the literal is ignored
parseFloatText(cs) ==
    LET l == Literal(cs, {"-", "+"})
    IN  IF IsInfinityText(cs) THEN JSInf(IF cs[1] = "-" THEN 0 - 1 ELSE 1)
        ELSE IF ~l.ok THEN JSNaN
        ELSE JSNum(IF l.neg THEN 0 - l.cents ELSE l.cents)

\* parseFloat(v): v is converted to a string first
parseFloat(v) ==
    CASE v.t \in {"num", "inf"} -> v
      [] v.t = "str" -> parseFloatText(v.cs)
      [] OTHER -> JSNaN

\* Papa Parse's test for a numeric cell: the whole text is a decimal literal
\* with an optional minus sign
testFloat(cs) ==
    LET l == Literal(cs, {"-"})
    IN  l.ok /\ l.end = Len(cs) + 1

\* dynamicTyping of a cell of characters: numeric text becomes a number, the
\* empty text becomes null, other text stays a string
dynamicTyping(cs) ==
    IF testFloat(cs) THEN parseFloatText(cs)
    ELSE IF cs = <<>> THEN JSNull
    ELSE JSText(cs)

\* dynamicTyping of a cell holding a name
dynamicTypingName(str) == IF str = "" THEN JSNull ELSE JSStr(str)

\* ------------------------------------------------------------------------
\* Dates
\* ------------------------------------------------------------------------

\* hours the server's time zone is ahead of UTC, for the zones modelled
TZOffsets == {0, 1}

IsLeap(y) == (y % 4 = 0 /\ y % 100 # 0) \/ y % 400 = 0

DaysInMonth(y, m) ==
    CASE m \in {4, 6, 9, 11} -> 30
      [] m = 2 -> IF IsLeap(y) THEN 29 ELSE 28
      [] OTHER -> 31

ValidYMD(y, m, d) == m \in 1..12 /\ d >= 1 /\ d <= DaysInMonth(y, m)

InvalidDate == [valid |-> FALSE, y |-> 0, m |-> 0, d |-> 0, local |-> FALSE]

DateAt(y, m, d, local) ==
    IF ValidYMD(y, m, d)
    THEN [valid |-> TRUE, y |-> y, m |-> m, d |-> d, local |-> local]
    ELSE InvalidDate

\* the date-only ISO form YYYY-MM-DD, read as midnight UTC
IsISODate(cs) ==
    /\ Len(cs) = 10
    /\ cs[5] = "-" /\ cs[8] = "-"
    /\ AllDigits(cs, 1, 4) /\ AllDigits(cs, 6, 7) /\ AllDigits(cs, 9, 10)

\* the form MM/DD/YYYY, read as midnight in the server's time zone
IsUSDate(cs) ==
    /\ Len(cs) = 10
    /\ cs[3] = "/" /\ cs[6] = "/"
    /\ AllDigits(cs, 1, 2) /\ AllDigits(cs, 4, 5) /\ AllDigits(cs, 7, 10)

\* Date.parse of a string
DateParse(cs) ==
    IF IsISODate(cs)
    THEN DateAt(NumVal(cs, 1, 5), NumVal(cs, 6, 8), NumVal(cs, 9, 11), FALSE)
    ELSE IF IsUSDate(cs)
    THEN DateAt(NumVal(cs, 7, 11), NumVal(cs, 1, 3), NumVal(cs, 4, 6), TRUE)
    ELSE InvalidDate

\* new Date(v): null is time 0, a number is a count of milliseconds (here
\* less than a day), undefined and NaN give an invalid date
NewDate(v) ==
    CASE v.t = "str" -> DateParse(v.cs)
      [] v.t = "null" -> DateAt(1970, 1, 1, FALSE)
      [] v.t = "num" -> IF v.n >= 0 /\ v.n \div 100 < 86400000
                        THEN DateAt(1970, 1, 1, FALSE) ELSE InvalidDate
      [] OTHER -> InvalidDate

PrevDay(y, m, d) ==
    IF d > 1 THEN [y |-> y, m |-> m, d |-> d - 1]
    ELSE IF m > 1 THEN [y |-> y, m |-> m - 1, d |-> DaysInMonth(y, m - 1)]
    ELSE [y |-> y - 1, m |-> 12, d |-> 31]

\* toISOString().split('T')[0] of a valid date: the calendar day in UTC.
\* Midnight in a zone ahead of UTC falls on the previous UTC day.
ISODay(dt, tzHours) ==
    IF dt.local /\ tzHours > 0 THEN PrevDay(dt.y, dt.m, dt.d)
    ELSE [y |-> dt.y, m |-> dt.m, d |-> dt.d]

\* ------------------------------------------------------------------------
\* Rows of the uploaded files
\* ------------------------------------------------------------------------

\* marks a column the file does not have (a cell is a sequence of single
\* characters, so no cell equals it)
NoColumn == <<"no column">>

NoName == "<no column>"

\* merchant names holding a character outside Latin-1
NonLatin1Names == {"Kafe U+2615"}

Row(date, description, merchant, amount, debit, account) ==
    [Date |-> date, Description |-> description, Merchant |-> merchant,
     Amount |-> amount, Debit |-> debit, Account |-> account]

Jan5ISO == <<"2", "0", "2", "4", "-", "0", "1", "-", "0", "5">>

Jan5US == <<"0", "1", "/", "0", "5", "/", "2", "0", "2", "4">>

Mar1US == <<"0", "3", "/", "0", "1", "/", "2", "0", "2", "4">>

Minus450 == <<"-", "4", ".", "5", "0">>

\* the rows files are made of, by name
RowNames ==
    {"coffee", "coffeeUS", "salary", "badDate", "blank", "badAmount",
     "nonLatin", "infinite"}

Catalogue(name) ==
    CASE name = "coffee" ->
           Row(Jan5ISO, "Coffee Shop", NoName, Minus450, NoColumn, "Checking")
      [] name = "coffeeUS" ->
           Row(Jan5US, "Coffee Shop", NoName, Minus450, NoColumn, "Checking")
      [] name = "salary" ->
           Row(Mar1US, "Salary", NoName, <<"1", "2", "0", "0">>, NoColumn,
               "Checking")
      [] name = "badDate" ->
           Row(<<"n", "/", "a">>, "Coffee Shop", NoName, Minus450, NoColumn,
               "Checking")
      [] name = "blank" ->
           Row(Jan5ISO, "", NoName, Minus450, NoColumn, "Checking")
      [] name = "badAmount" ->
           Row(Jan5ISO, "Coffee Shop", NoName, <<"a", "b", "c">>, NoColumn,
               "Checking")
      [] name = "nonLatin" ->
           Row(Jan5ISO, "Kafe U+2615", NoName, Minus450, NoColumn, "Checking")
      [] name = "infinite" ->
           Row(Jan5ISO, "Coffee Shop", NoName, InfinityText, NoColumn,
               "Checking")

\* Papa.parse(..., {header: true, dynamicTyping: true}): the typed cells of
\* one data line
ParseRow(raw) ==
    LET Cell(cs) == IF cs = NoColumn THEN JSUndef ELSE dynamicTyping(cs)
        Name(str) == IF str = NoName THEN JSUndef ELSE dynamicTypingName(str)
    IN  [Date |-> Cell(raw.Date), Description |-> Name(raw.Description),
         Merchant |-> Name(raw.Merchant), Amount |-> Cell(raw.Amount),
         Debit |-> Cell(raw.Debit), Account |-> Name(raw.Account)]

ParseLine(name) == ParseRow(Catalogue(name))

\* the parsed form of every catalogue row
ParsedRows == [name \in RowNames |-> ParseLine(name)]

Parsed(name) == ParsedRows[name]

\* ------------------------------------------------------------------------
\* Identity hash
\* ------------------------------------------------------------------------

\* JSON.stringify of a property value: NaN and the infinities are written as
\* null and a property that is undefined is left out
JSONValue(v) ==
    CASE v.t \in {"nan", "inf"} -> JSNull
      [] v.t = "undef" -> [t |-> "omitted", s |-> "", n |-> 0, cs |-> <<>>]
      [] OTHER -> v

\* btoa throws InvalidCharacterError on a character outside Latin-1
InvalidCharacter(transaction) ==
    \E f \in {"date", "merchant", "account"} :
        transaction[f].t = "str" /\ transaction[f].s \in NonLatin1Names

\* btoa(JSON.stringify({date, merchant, amount, account})): the encoding is
\* one-to-one, so the hash is the tuple of the four serialised values
createTransactionHash(transaction) ==
    [date |-> JSONValue(transaction.date),
     merchant |-> JSONValue(transaction.merchant),
     amount |-> JSONValue(transaction.amount),
     account |-> JSONValue(transaction.account)]

\* ------------------------------------------------------------------------
\* Normalisation (the callback of parsed.data.map)
\* ------------------------------------------------------------------------

\* HashInput with the account as the file gives it, without the fallback
HashInputRawAccount(row) ==
    [date |-> row.Date,
     merchant |-> Or(row.Description, row.Merchant),
     amount |-> parseFloat(Or(row.Amount, row.Debit)),
     account |-> row.Account]

\* the object of lines 164-169 that is hashed
HashInput(row) ==
    [date |-> row.Date,
     merchant |-> Or(row.Description, row.Merchant),
     amount |-> parseFloat(Or(row.Amount, row.Debit)),
     account |-> Or(row.Account, JSStr("Default"))]

\* new Date(row.Date).toISOString() throws RangeError on an invalid date
DateThrows(row) == ~NewDate(row.Date).valid

RowThrows(row) == DateThrows(row) \/ InvalidCharacter(HashInput(row))

\* message of the error a throwing row raises
RowError(row) ==
    IF DateThrows(row) THEN "Invalid time value" ELSE "Invalid character"

\* NormalizeRow with the status of a row that has a cost center
NormalizeRowProcessed(row, tzHours) ==
    [date |-> ISODay(NewDate(row.Date), tzHours),
     merchant |-> Or(row.Description, row.Merchant),
     amount |-> parseFloat(Or(row.Amount, row.Debit)),
     account |-> Or(row.Account, JSStr("Default")),
     status |-> "Processed",
     hash |-> createTransactionHash(HashInput(row))]

\* one element of normalizedData, for a row that does not throw
NormalizeRow(row, tzHours) ==
    [date |-> ISODay(NewDate(row.Date), tzHours),
     merchant |-> Or(row.Description, row.Merchant),
     amount |-> parseFloat(Or(row.Amount, row.Debit)),
     account |-> Or(row.Account, JSStr("Default")),
     status |-> "Review Required",
     hash |-> createTransactionHash(HashInput(row))]

\* .filter(t => !isNaN(t.amount))
KeepRow(t) == t.amount.t # "nan"

\* the catalogue rows whose normalisation throws
ThrowingRows == {name \in RowNames : RowThrows(Parsed(name))}

\* what the map callback returns for every catalogue row that does not throw,
\* in every time zone
NormalizedRows ==
    [name \in RowNames \ ThrowingRows, tzHours \in TZOffsets |->
        NormalizeRow(Parsed(name), tzHours)]

\* the rows of a file as parsed
ParsedData(file) == [i \in 1..Len(file) |-> Parsed(file[i])]

\* index of the first row of the file whose normalisation throws, 0 if none
FirstThrow(file) ==
    LET bad == {i \in 1..Len(file) : file[i] \in ThrowingRows}
    IN  IF bad = {} THEN 0 ELSE CHOOSE i \in bad : \A j \in bad : i <= j

\* normalizedData of lines 157-170, for a file none of whose rows throws
NormalizedData(file, tzHours) ==
    SelectSeq([i \in 1..Len(file) |-> NormalizedRows[file[i], tzHours]],
              KeepRow)

\* ------------------------------------------------------------------------
\* State
\* ------------------------------------------------------------------------

VARIABLES
    tz,         \* hours the server's time zone is ahead of UTC
    pool,       \* the rows the uploaded files of this behaviour are made of
    storage,    \* the transactions table, in insertion order
    req,        \* the POST /api/upload requests, by order of arrival
    patch,      \* the last PATCH /api/transactions/:id request and its answer
    line,       \* a data line followed through the map callback and filter
    out,        \* how far that line has got, and what it has become
    env,        \* process.env.LOGIN_PASSWORD of the server
    ui          \* the state of the App component in the browser

vars == <<tz, pool, storage, req, patch, line, out, env, ui>>

Requests == 1..MaxUploads

\* the files a client can upload: at most MaxRows data lines
Files == UNION {[1..n -> pool] : n \in 0..MaxRows}

\* count carried by a response whose message has none
NoCount == 0 - 1

Response(status, count, error) ==
    [status |-> status, count |-> count, error |-> error]

Idle ==
    [pc |-> "idle", hasFile |-> FALSE, file |-> <<>>,
     normalizedData |-> <<>>, queried |-> <<>>, existingHashes |-> {},
     newTransactions |-> <<>>, queries |-> 0, inserts |-> 0,
     insertError |-> FALSE, responses |-> <<>>]

\* no PATCH request yet
NoPatch ==
    [n |-> 0, id |-> 0, costCenter |-> JSUndef, status |-> 0, arrived |-> 0]

\* no data line is followed
NoRow == Row(NoColumn, NoName, NoName, NoColumn, NoColumn, NoName)

Stage(stage, cells, value, error) ==
    [stage |-> stage, cells |-> cells, value |-> value, error |-> error]

NoOut == Stage("none", <<>>, <<>>, "")

MaxLogins == 2

MaxChanges == 2

\* the empty value of a date input
NoDate == [y |-> 0, m |-> 0, d |-> 0]

\* a call of handleCostCenterChange that has not been made; of a call that
\* has, original is the copy of the list it took, during the calls that were
\* in flight when it started, outcome the status of the answer (0: none)
NoChange ==
    [pc |-> "idle", id |-> 0, costCenter |-> JSStr(""), status |-> "",
     original |-> <<>>, during |-> {}, outcome |-> 0]

\* the useState values of a mounted App: nobody is logged in, the lists and
\* the filters are empty; login, fetch and changes follow the calls in flight
Mounted ==
    [isAuthenticated |-> FALSE, error |-> "", isLoading |-> TRUE,
     transactions |-> <<>>, costCenters |-> <<>>, mappings |-> <<>>,
     startDate |-> NoDate, endDate |-> NoDate, filterMerchant |-> <<>>,
     filterAccount |-> "", filterCostCenter |-> "", filterStatus |-> "",
     login |-> [n |-> 0, pc |-> "idle", password |-> "", success |-> FALSE],
     fetch |-> "idle",
     changes |-> [k \in 1..MaxChanges |-> NoChange]]

Init ==
    /\ tz \in TZOffsets
    /\ pool \in {p \in SUBSET RowNames : Cardinality(p) = PoolSize}
    /\ storage = <<>>
    /\ req = [r \in Requests |-> Idle]
    /\ patch = NoPatch
    /\ line = NoRow
    /\ out = NoOut
    /\ env = JSUndef
    /\ ui = Mounted

\* ------------------------------------------------------------------------
\* The transactions table
\* ------------------------------------------------------------------------

\* value of a column of an inserted row: an undefined property is not in the
\* JSON body, NaN and the infinities are written as null, all give a null
\* column
Column(v) == IF v.t \in {"undef", "nan", "inf"} THEN JSNull ELSE v

\* Inserted under a uniqueness constraint on hash that skips the records
\* whose hash is stored already
InsertedUnique(table, records) ==
    LET fresh == SelectSeq(records, LAMBDA t :
                     \A i \in 1..Len(table) : table[i].hash # t.hash)
    IN  table \o [i \in 1..Len(fresh) |->
                    [id |-> Len(table) + i,
                     date |-> fresh[i].date,
                     merchant |-> Column(fresh[i].merchant),
                     amount |-> Column(fresh[i].amount),
                     account |-> Column(fresh[i].account),
                     status |-> fresh[i].status,
                     hash |-> fresh[i].hash,
                     costCenter |-> JSNull]]

\* storage after .insert(records): each record gets the next id and a null
\* costCenter
Inserted(table, records) ==
    table \o [i \in 1..Len(records) |->
                [id |-> Len(table) + i,
                 date |-> records[i].date,
                 merchant |-> Column(records[i].merchant),
                 amount |-> Column(records[i].amount),
                 account |-> Column(records[i].account),
                 status |-> records[i].status,
                 hash |-> records[i].hash,
                 costCenter |-> JSNull]]

\* SelectHashIn with the filter on the first hash only, as .eq('hash',
\* hashes[0]) would do
SelectHashInFirstOnly(table, hashes) ==
    LET asked == IF hashes = <<>> THEN {} ELSE {hashes[1]}
    IN  SelectSeq([i \in 1..Len(table) |-> [hash |-> table[i].hash]],
                  LAMBDA row : row.hash \in asked)

\* .select('hash').in('hash', hashes): the hash of every stored row whose
\* hash is one of those asked for
SelectHashIn(table, hashes) ==
    LET asked == {hashes[i] : i \in 1..Len(hashes)}
    IN  SelectSeq([i \in 1..Len(table) |-> [hash |-> table[i].hash]],
                  LAMBDA row : row.hash \in asked)

\* new Set(existingTransactions.map(t => t.hash))
HashSet(rows) == {rows[i].hash : i \in 1..Len(rows)}

\* NewTransactions without the filter: every normalised row is taken as new
NewTransactionsUnfiltered(data, existing) == data

\* normalizedData.filter(t => !existingHashes.has(t.hash))
NewTransactions(data, existing) ==
    SelectSeq(data, LAMBDA t : t.hash \notin existing)

\* ------------------------------------------------------------------------
\* POST /api/upload
\* ------------------------------------------------------------------------

\* requests arrive in the order of their numbers
CanArrive(r) ==
    /\ req[r].pc = "idle"
    /\ \A q \in Requests : q < r => req[q].pc # "idle"

Respond(r, rec, response) ==
    [rec EXCEPT !.pc = "done", !.responses = Append(@, response)]

\* lines 144-146: a request without a file is answered 400
UploadNoFile(r) ==
    /\ CanArrive(r)
    /\ req' = [req EXCEPT ![r] =
                 Respond(r, @, Response(400, NoCount, "No file uploaded."))]
    /\ UNCHANGED <<tz, pool, storage, patch, line, out, env, ui>>

\* UploadThrows with a catch block that answers the message of a failed
\* insert for every error
UploadThrowsAsInsertFailure(r, f) ==
    /\ CanArrive(r)
    /\ FirstThrow(f) # 0
    /\ req' = [req EXCEPT ![r] =
                 Respond(r, [@ EXCEPT !.hasFile = TRUE, !.file = f],
                         Response(500, NoCount, "Database insertion failed."))]
    /\ UNCHANGED <<tz, pool, storage, patch, line, out, env, ui>>

\* lines 148-170, 192-195: a row throws while the file is normalised; the
\* catch block answers 500
UploadThrows(r, f) ==
    /\ CanArrive(r)
    /\ FirstThrow(f) # 0
    /\ req' = [req EXCEPT ![r] =
                 Respond(r, [@ EXCEPT !.hasFile = TRUE, !.file = f],
                         Response(500, NoCount,
                                  RowError(Parsed(f[FirstThrow(f)]))))]
    /\ UNCHANGED <<tz, pool, storage, patch, line, out, env, ui>>

\* UploadQuery with one existence query for each row instead of one for the
\* batch
UploadQueryPerRow(r, f) ==
    /\ CanArrive(r)
    /\ FirstThrow(f) = 0
    /\ LET data == NormalizedData(f, tz)
       IN  req' = [req EXCEPT ![r] =
                     [@ EXCEPT !.pc = "querying", !.hasFile = TRUE,
                               !.file = f,
                               !.normalizedData = data,
                               !.queried = [i \in 1..Len(data) |-> data[i].hash],
                               !.queries = @ + Len(data)]]
    /\ UNCHANGED <<tz, pool, storage, patch, line, out, env, ui>>

\* lines 148-175: the file is parsed and normalised and the existence query
\* is sent
UploadQuery(r, f) ==
    /\ CanArrive(r)
    /\ FirstThrow(f) = 0
    /\ LET data == NormalizedData(f, tz)
       IN  req' = [req EXCEPT ![r] =
                     [@ EXCEPT !.pc = "querying", !.hasFile = TRUE,
                               !.file = f,
                               !.normalizedData = data,
                               !.queried = [i \in 1..Len(data) |-> data[i].hash],
                               !.queries = @ + 1]]
    /\ UNCHANGED <<tz, pool, storage, patch, line, out, env, ui>>

\* QueryAnswers with a set of hashes kept between uploads: what another
\* upload has classified as new counts as existing
QueryAnswersRemembering(r) ==
    /\ req[r].pc = "querying"
    /\ LET seen == UNION {{req[q].newTransactions[k].hash :
                               k \in 1..Len(req[q].newTransactions)} :
                          q \in Requests \ {r}}
           existing == HashSet(SelectHashIn(storage, req[r].queried))
                           \cup seen
           new == NewTransactions(req[r].normalizedData, existing)
           rec == [req[r] EXCEPT !.existingHashes = existing,
                                 !.newTransactions = new]
       IN  req' = [req EXCEPT ![r] =
                     IF Len(new) > 0
                     THEN [rec EXCEPT !.pc = "inserting", !.inserts = @ + 1]
                     ELSE Respond(r, rec, Response(200, Len(new), ""))]
    /\ UNCHANGED <<tz, pool, storage, patch, line, out, env, ui>>

\* lines 172-190: the query answers; the rows whose hash it did not return
\* are the new ones; they are sent in one insert, or 200 is answered when
\* there is none
QueryAnswers(r) ==
    /\ req[r].pc = "querying"
    /\ LET existing == HashSet(SelectHashIn(storage, req[r].queried))
           new == NewTransactions(req[r].normalizedData, existing)
           rec == [req[r] EXCEPT !.existingHashes = existing,
                                 !.newTransactions = new]
       IN  req' = [req EXCEPT ![r] =
                     IF Len(new) > 0
                     THEN [rec EXCEPT !.pc = "inserting", !.inserts = @ + 1]
                     ELSE Respond(r, rec, Response(200, Len(new), ""))]
    /\ UNCHANGED <<tz, pool, storage, patch, line, out, env, ui>>

\* QueryFails in a handler without the catch block: the rejection is not
\* handled and no response is sent
QueryFailsUnanswered(r) ==
    /\ req[r].pc = "querying"
    /\ req' = [req EXCEPT ![r] = [@ EXCEPT !.pc = "done"]]
    /\ UNCHANGED <<tz, pool, storage, patch, line, out, env, ui>>

\* lines 172-177, 192-195: the query fails, data is null and
\* existingTransactions.map throws; the catch block answers 500
QueryFails(r) ==
    /\ req[r].pc = "querying"
    /\ req' = [req EXCEPT ![r] =
                 Respond(r, @, Response(500, NoCount,
                                        "Cannot read properties of null"))]
    /\ UNCHANGED <<tz, pool, storage, patch, line, out, env, ui>>

\* InsertSucceeds with a table that stores the first record of the insert
\* only
InsertSucceedsFirstOnly(r) ==
    /\ req[r].pc = "inserting"
    /\ storage' = Inserted(storage, SubSeq(req[r].newTransactions, 1, 1))
    /\ req' = [req EXCEPT ![r] =
                 Respond(r, @, Response(200, Len(req[r].newTransactions), ""))]
    /\ UNCHANGED <<tz, pool, patch, line, out, env, ui>>

\* lines 181-190: the insert succeeds and 200 is answered
InsertSucceeds(r) ==
    /\ req[r].pc = "inserting"
    /\ storage' = Inserted(storage, req[r].newTransactions)
    /\ req' = [req EXCEPT ![r] =
                 Respond(r, @, Response(200, Len(req[r].newTransactions), ""))]
    /\ UNCHANGED <<tz, pool, patch, line, out, env, ui>>

\* InsertFails with insertError not looked at: the handler goes on to the 200
\* answer
InsertFailsUnnoticed(r) ==
    /\ req[r].pc = "inserting"
    /\ req' = [req EXCEPT ![r] =
                 Respond(r, [@ EXCEPT !.insertError = TRUE],
                         Response(200, Len(req[r].newTransactions), ""))]
    /\ UNCHANGED <<tz, pool, storage, patch, line, out, env, ui>>

\* lines 181-185, 192-195: the insert returns an error and the catch block
\* answers 500.  The records go to the table in one statement, so nothing of
\* a failed insert is stored.
InsertFails(r) ==
    /\ req[r].pc = "inserting"
    /\ req' = [req EXCEPT ![r] =
                 Respond(r, [@ EXCEPT !.insertError = TRUE],
                         Response(500, NoCount, "Database insertion failed."))]
    /\ UNCHANGED <<tz, pool, storage, patch, line, out, env, ui>>

Next ==
    \/ \E r \in Requests : UploadNoFile(r)
    \/ \E r \in Requests, f \in Files : UploadThrows(r, f)
    \/ \E r \in Requests, f \in Files : UploadQuery(r, f)
    \/ \E r \in Requests : QueryAnswers(r)
    \/ \E r \in Requests : QueryFails(r)
    \/ \E r \in Requests : InsertSucceeds(r)
    \/ \E r \in Requests : InsertFails(r)

Spec == Init /\ [][Next]_vars

\* the storage calls of every upload return: an awaited query or insert is
\* answered, with a result or with an error
StorageReturns ==
    \A r \in Requests :
        /\ WF_vars(QueryAnswers(r) \/ QueryFails(r))
        /\ WF_vars(InsertSucceeds(r) \/ InsertFails(r))

LiveSpec == Init /\ [][Next]_vars /\ StorageReturns

\* ------------------------------------------------------------------------
\* Uploads one after another: a request arrives only when no other request
\* is being processed
\* ------------------------------------------------------------------------

NoneInFlight == \A q \in Requests : req[q].pc \in {"idle", "done"}

SeqUploadNoFile(r) == NoneInFlight /\ UploadNoFile(r)

SeqUploadThrows(r, f) == NoneInFlight /\ UploadThrows(r, f)

SeqUploadQuery(r, f) == NoneInFlight /\ UploadQuery(r, f)

SeqNext ==
    \/ \E r \in Requests : SeqUploadNoFile(r)
    \/ \E r \in Requests, f \in Files : SeqUploadThrows(r, f)
    \/ \E r \in Requests, f \in Files : SeqUploadQuery(r, f)
    \/ \E r \in Requests : QueryAnswers(r)
    \/ \E r \in Requests : QueryFails(r)
    \/ \E r \in Requests : InsertSucceeds(r)
    \/ \E r \in Requests : InsertFails(r)

SeqSpec == Init /\ [][SeqNext]_vars

\* ------------------------------------------------------------------------
\* PATCH /api/transactions/:id
\* ------------------------------------------------------------------------

\* number of PATCH requests in one behaviour
MaxPatches == 2

\* req.body.costCenter: missing from the body, empty, or a name
CostCenterInputs == {JSUndef, JSStr(""), JSStr("Food")}

\* line 81
DerivedStatus(costCenter) ==
    IF Truthy(costCenter) THEN "Processed" ELSE "Review Required"

\* Updated without the .eq('id', id) filter: every row is updated
UpdatedEveryRow(table, id, costCenter, status) ==
    [i \in 1..Len(table) |->
        [table[i] EXCEPT
            !.costCenter = IF costCenter.t = "undef" THEN @ ELSE costCenter,
            !.status = status]]

\* .update({ costCenter, status }).eq('id', id): a costCenter that is
\* undefined is not in the JSON body, and that column is left as it is
Updated(table, id, costCenter, status) ==
    [i \in 1..Len(table) |->
        IF table[i].id = id
        THEN [table[i] EXCEPT
                !.costCenter = IF costCenter.t = "undef" THEN @ ELSE costCenter,
                !.status = status]
        ELSE table[i]]

\* the ids a PATCH can name: those of the stored rows and one of no row
PatchIds == 1..(Len(storage) + 1)

\* number of upload requests that have arrived
Arrived == Cardinality({r \in Requests : req[r].pc # "idle"})

PatchCall(id, costCenter, status) ==
    [n |-> patch.n + 1, id |-> id, costCenter |-> costCenter,
     status |-> status, arrived |-> Arrived]

\* lines 78-93: the update succeeds and 200 is answered
PatchSucceeds(id, costCenter) ==
    /\ patch.n < MaxPatches
    /\ storage' = Updated(storage, id, costCenter, DerivedStatus(costCenter))
    /\ patch' = PatchCall(id, costCenter, 200)
    /\ UNCHANGED <<tz, pool, req, line, out, env, ui>>

\* lines 78-91: the update returns an error, the table is as before and 500
\* is answered
PatchFails(id, costCenter) ==
    /\ patch.n < MaxPatches
    /\ patch' = PatchCall(id, costCenter, 500)
    /\ UNCHANGED <<tz, pool, storage, req, line, out, env, ui>>

\* uploads of an ordinary row and of a second row, ordinary or with a date
\* that throws, one after another, and cost-center edits
PatchInit == Init /\ pool \in {{"coffee", "salary"}, {"coffee", "badDate"}}

PatchNext ==
    \/ SeqNext
    \/ \E id \in PatchIds, costCenter \in CostCenterInputs :
          PatchSucceeds(id, costCenter)
    \/ \E id \in PatchIds, costCenter \in CostCenterInputs :
          PatchFails(id, costCenter)

PatchSpec == PatchInit /\ [][PatchNext]_vars

\* ------------------------------------------------------------------------
\* One data line through the map callback and the filter
\* ------------------------------------------------------------------------

Thousands == <<"1", ",", "2", "3", "4", ".", "5", "0">>

MinusThousands == <<"-", "1", ",", "2", "3", "4", ".", "5", "0">>

DateCells == {Jan5ISO, Jan5US, <<"n", "/", "a">>}

DescriptionCells == {NoName, "", "Coffee Shop"}

MerchantCells == {NoName, "", "ACME"}

AmountCells ==
    {NoColumn, <<>>, Minus450, <<"0">>, <<"a", "b", "c">>, Thousands,
     MinusThousands, InfinityText}

DebitCells == {NoColumn, <<"1", "2", ".", "0", "0">>}

AccountCells == {NoName, "", "Checking"}

\* the data lines followed
RawRows ==
    {Row(date, description, merchant, amount, debit, account) :
        date \in DateCells, description \in DescriptionCells,
        merchant \in MerchantCells, amount \in AmountCells,
        debit \in DebitCells, account \in AccountCells}

RowInit ==
    /\ tz \in TZOffsets
    /\ pool = {}
    /\ storage = <<>>
    /\ req = [r \in Requests |-> Idle]
    /\ patch = NoPatch
    /\ line \in RawRows
    /\ out = Stage("line", <<>>, <<>>, "")
    /\ env = JSUndef
    /\ ui = Mounted

\* lines 150-154: the line becomes an element of parsed.data
RowParsed ==
    /\ out.stage = "line"
    /\ out' = Stage("parsed", ParseRow(line), <<>>, "")
    /\ UNCHANGED <<tz, pool, storage, req, patch, line, env, ui>>

\* lines 157-169, 192-195: the map callback throws on the element
RowMapThrows ==
    /\ out.stage = "parsed"
    /\ RowThrows(out.cells)
    /\ out' = Stage("threw", out.cells, <<>>, RowError(out.cells))
    /\ UNCHANGED <<tz, pool, storage, req, patch, line, env, ui>>

\* lines 157-169: the map callback returns the normalised record
RowMapped ==
    /\ out.stage = "parsed"
    /\ ~RowThrows(out.cells)
    /\ out' = Stage("mapped", out.cells, NormalizeRow(out.cells, tz), "")
    /\ UNCHANGED <<tz, pool, storage, req, patch, line, env, ui>>

\* line 170: the filter keeps the record in normalizedData
RowKept ==
    /\ out.stage = "mapped"
    /\ KeepRow(out.value)
    /\ out' = [out EXCEPT !.stage = "kept"]
    /\ UNCHANGED <<tz, pool, storage, req, patch, line, env, ui>>

\* line 170: the filter drops the record
RowDropped ==
    /\ out.stage = "mapped"
    /\ ~KeepRow(out.value)
    /\ out' = [out EXCEPT !.stage = "dropped"]
    /\ UNCHANGED <<tz, pool, storage, req, patch, line, env, ui>>

RowNext == RowParsed \/ RowMapThrows \/ RowMapped \/ RowKept \/ RowDropped

RowSpec == RowInit /\ [][RowNext]_vars

\* ------------------------------------------------------------------------
\* The App component: login, the fetch on load, cost-center changes
\* ------------------------------------------------------------------------

\* the values LOGIN_PASSWORD has in the server's environment
LoginPasswords == {JSUndef, JSStr(""), JSStr("secret")}

\* server.js line 40
CORRECT_PASSWORD == Or(env, JSStr("defaultpassword"))

\* what the user types into the password input
PasswordInputs == {"", "defaultpassword", "secret"}

\* the rows GET /api/cost-centers and GET /api/mappings return
CostCenterTable == <<[name |-> "Food"]>>

MappingTable == <<[id |-> 1, name |-> "Bank A"]>>

\* the page is opened on a server whose table holds the two records of an
\* earlier upload
UIInit ==
    /\ tz = 0
    /\ pool = {"coffee", "salary"}
    /\ storage = Inserted(<<>>, NormalizedData(<<"coffee", "salary">>, tz))
    /\ req = [r \in Requests |-> Idle]
    /\ patch = NoPatch
    /\ line = NoRow
    /\ out = NoOut
    /\ env \in LoginPasswords
    /\ ui = Mounted

\* handleLogin, lines 77-85: the form of the login page is submitted
LoginSubmit(password) ==
    /\ ~ui.isAuthenticated
    /\ ui.login.pc \in {"idle", "done"}
    /\ ui.login.n < MaxLogins
    /\ ui' = [ui EXCEPT !.error = "",
                        !.login = [n |-> @.n + 1, pc |-> "sent",
                                   password |-> password, success |-> FALSE]]
    /\ UNCHANGED <<tz, pool, storage, req, patch, line, out, env>>

\* LoginAnswered in a page that takes every answer of the server for a
\* successful login
LoginAnsweredAnyAnswer ==
    /\ ui.login.pc = "sent"
    /\ ui' = [ui EXCEPT !.isAuthenticated = TRUE,
                        !.isLoading = TRUE,
                        !.fetch = "sent",
                        !.login.pc = "done"]
    /\ UNCHANGED <<tz, pool, storage, req, patch, line, out, env>>

\* server.js lines 36-45 and handleLogin lines 87-96: the server compares the
\* password and answers; on success the page sets isAuthenticated and the
\* effect of lines 48-55 starts the three fetches
LoginAnswered ==
    /\ ui.login.pc = "sent"
    /\ LET success == JSStr(ui.login.password) = CORRECT_PASSWORD
       IN  ui' = IF success
                 THEN [ui EXCEPT !.isAuthenticated = TRUE,
                                 !.isLoading = TRUE,
                                 !.fetch = "sent",
                                 !.login.pc = "done",
                                 !.login.success = TRUE]
                 ELSE [ui EXCEPT !.error = "Incorrect password.",
                                 !.login.pc = "done"]
    /\ UNCHANGED <<tz, pool, storage, req, patch, line, out, env>>

\* handleLogin lines 97-101: the request fails or its answer is not JSON
LoginFails ==
    /\ ui.login.pc = "sent"
    /\ ui' = [ui EXCEPT !.error = "Server error. Please try again later.",
                        !.login.pc = "done"]
    /\ UNCHANGED <<tz, pool, storage, req, patch, line, out, env>>

\* lines 56-70: the three lists have arrived
FetchAnswered ==
    /\ ui.fetch = "sent"
    /\ ui' = [ui EXCEPT
                 !.transactions = storage,
                 !.costCenters = [i \in 1..Len(CostCenterTable) |->
                                     CostCenterTable[i].name],
                 !.mappings = MappingTable,
                 !.isLoading = FALSE,
                 !.fetch = "done"]
    /\ UNCHANGED <<tz, pool, storage, req, patch, line, out, env>>

\* lines 57, 66-70: one of the three requests failed
FetchFails ==
    /\ ui.fetch = "sent"
    /\ ui' = [ui EXCEPT !.isLoading = FALSE, !.fetch = "done"]
    /\ UNCHANGED <<tz, pool, storage, req, patch, line, out, env>>

\* the values of the select of line 408: "Select..." and the cost centers
CostCenterOptions ==
    {JSStr("")} \cup {JSStr(ui.costCenters[i]) : i \in 1..Len(ui.costCenters)}

\* OptimisticStatus that takes every value the select gives for a cost center
OptimisticStatusDefined(newCostCenter) ==
    IF newCostCenter.t \in {"undef", "null"} THEN "Review Required"
    ELSE "Processed"

\* line 133
OptimisticStatus(newCostCenter) ==
    IF Truthy(newCostCenter) THEN "Processed" ELSE "Review Required"

\* lines 135-137
Optimistic(transactions, transactionId, newCostCenter) ==
    [i \in 1..Len(transactions) |->
        IF transactions[i].id = transactionId
        THEN [transactions[i] EXCEPT
                 !.costCenter = newCostCenter,
                 !.status = OptimisticStatus(newCostCenter)]
        ELSE transactions[i]]

\* handleCostCenterChange, lines 131-144: the list is copied, the optimistic
\* update is made and the PATCH request is sent
ChangeStart(k, transactionId, newCostCenter) ==
    /\ ui.isAuthenticated /\ ~ui.isLoading
    /\ ui.changes[k].pc = "idle"
    /\ \A j \in 1..(k - 1) : ui.changes[j].pc # "idle"
    /\ \E i \in 1..Len(ui.transactions) :
          ui.transactions[i].id = transactionId
    /\ ui' = [ui EXCEPT
                 !.transactions =
                     Optimistic(@, transactionId, newCostCenter),
                 !.changes[k] =
                     [pc |-> "sent", id |-> transactionId,
                      costCenter |-> newCostCenter,
                      status |-> OptimisticStatus(newCostCenter),
                      original |-> ui.transactions,
                      during |-> {j \in 1..MaxChanges :
                                     ui.changes[j].pc \notin {"idle", "done"}},
                      outcome |-> 0]]
    /\ UNCHANGED <<tz, pool, storage, req, patch, line, out, env>>

\* server.js lines 78-93: the server applies the PATCH and answers 200
ChangeApplied(k) ==
    /\ ui.changes[k].pc = "sent"
    /\ storage' = Updated(storage, ui.changes[k].id, ui.changes[k].costCenter,
                          DerivedStatus(ui.changes[k].costCenter))
    /\ ui' = [ui EXCEPT !.changes[k].pc = "answered",
                        !.changes[k].outcome = 200]
    /\ UNCHANGED <<tz, pool, req, patch, line, out, env>>

\* server.js lines 88-91: the update fails and the server answers 500
ChangeRefused(k) ==
    /\ ui.changes[k].pc = "sent"
    /\ ui' = [ui EXCEPT !.changes[k].pc = "answered",
                        !.changes[k].outcome = 500]
    /\ UNCHANGED <<tz, pool, storage, req, patch, line, out, env>>

\* the request does not reach the server: fetch rejects
ChangeLost(k) ==
    /\ ui.changes[k].pc = "sent"
    /\ ui' = [ui EXCEPT !.changes[k].pc = "rejected"]
    /\ UNCHANGED <<tz, pool, storage, req, patch, line, out, env>>

\* lines 139-144: fetch resolved, with whatever status; the handler returns
ChangeSettled(k) ==
    /\ ui.changes[k].pc = "answered"
    /\ ui' = [ui EXCEPT !.changes[k].pc = "done"]
    /\ UNCHANGED <<tz, pool, storage, req, patch, line, out, env>>

\* lines 145-149: fetch rejected; the copy made at the start is put back
ChangeReverted(k) ==
    /\ ui.changes[k].pc = "rejected"
    /\ ui' = [ui EXCEPT !.transactions = ui.changes[k].original,
                        !.changes[k].pc = "done"]
    /\ UNCHANGED <<tz, pool, storage, req, patch, line, out, env>>

Changes == 1..MaxChanges

UINext ==
    \/ \E password \in PasswordInputs : LoginSubmit(password)
    \/ LoginAnswered
    \/ LoginFails
    \/ FetchAnswered
    \/ FetchFails
    \/ \E k \in Changes, id \in 1..Len(storage),
          newCostCenter \in CostCenterOptions :
          ChangeStart(k, id, newCostCenter)
    \/ \E k \in Changes : ChangeApplied(k)
    \/ \E k \in Changes : ChangeRefused(k)
    \/ \E k \in Changes : ChangeLost(k)
    \/ \E k \in Changes : ChangeSettled(k)
    \/ \E k \in Changes : ChangeReverted(k)

UISpec == UIInit /\ [][UINext]_vars

\* ------------------------------------------------------------------------
\* The App component: the filters and the totals
\* ------------------------------------------------------------------------

MaxShown == 3

\* String.prototype.toLowerCase, on the characters of the text
toLowerCase(cs) ==
    LET UpperCase ==
            <<"A", "B", "C", "D", "E", "F", "G", "H", "I", "J", "K", "L", "M",
              "N", "O", "P", "Q", "R", "S", "T", "U", "V", "W", "X", "Y", "Z">>
        LowerCase ==
            <<"a", "b", "c", "d", "e", "f", "g", "h", "i", "j", "k", "l", "m",
              "n", "o", "p", "q", "r", "s", "t", "u", "v", "w", "x", "y", "z">>
    IN  [i \in 1..Len(cs) |->
            IF \E k \in 1..Len(UpperCase) : UpperCase[k] = cs[i]
            THEN LowerCase[CHOOSE k \in 1..Len(UpperCase) :
                               UpperCase[k] = cs[i]]
            ELSE cs[i]]

\* String.prototype.includes
includes(text, part) ==
    \E i \in 0..(Len(text) - Len(part)) :
        SubSeq(text, i + 1, i + Len(part)) = part

\* order of the days: new Date("YYYY-MM-DD") is midnight UTC of that day
DayNumber(date) == (date.y * 12 + date.m) * 31 + date.d

\* lines 241-246: the record is not before start and not after end
PassesDates(t) ==
    /\ ~(ui.startDate # NoDate /\ DayNumber(t.date) < DayNumber(ui.startDate))
    /\ ~(ui.endDate # NoDate /\ DayNumber(t.date) > DayNumber(ui.endDate))

\* line 247: t.merchant.toLowerCase() of a record without a merchant
FilterThrows(t) ==
    PassesDates(t) /\ ui.filterMerchant # <<>> /\ t.merchant.t # "str"

\* lines 241-252: the callback of the filter returns true
FilterKeeps(t) ==
    /\ PassesDates(t)
    /\ ui.filterMerchant # <<>>
       => includes(toLowerCase(t.merchant.cs), toLowerCase(ui.filterMerchant))
    /\ ui.filterAccount # "" => t.account = JSStr(ui.filterAccount)
    /\ ui.filterCostCenter # "" => t.costCenter = JSStr(ui.filterCostCenter)
    /\ ui.filterStatus # "" => t.status = ui.filterStatus

\* the filter callback throws for a record: the component does not render
RenderThrows ==
    \E i \in 1..Len(ui.transactions) : FilterThrows(ui.transactions[i])

\* lines 239-254
filteredTransactions == SelectSeq(ui.transactions, FilterKeeps)

\* the number += adds: null counts as 0
Addend(amount) == IF amount.t = "num" THEN amount.n ELSE 0

\* lines 257-266: the reduce over the filtered records
RECURSIVE Reduce(_, _)
Reduce(list, acc) ==
    IF list = <<>> THEN acc
    ELSE Reduce(Tail(list),
                IF Head(list).amount.t = "num" /\ Head(list).amount.n > 0
                THEN [acc EXCEPT !.totalIncome = @ + Addend(Head(list).amount)]
                ELSE [acc EXCEPT
                         !.totalExpenses = @ + Addend(Head(list).amount)])

totalIncome ==
    Reduce(filteredTransactions,
           [totalIncome |-> 0, totalExpenses |-> 0]).totalIncome

totalExpenses ==
    Reduce(filteredTransactions,
           [totalIncome |-> 0, totalExpenses |-> 0]).totalExpenses

\* line 268
netSavings == totalIncome + totalExpenses

Jan5 == [y |-> 2024, m |-> 1, d |-> 5]

Mar1 == [y |-> 2024, m |-> 3, d |-> 1]

\* a row of the transactions table as GET /api/transactions returns it
Shows(date, merchant, amount, account, costCenter) ==
    [id |-> 0, date |-> date, merchant |-> merchant, amount |-> amount,
     account |-> JSStr(account), costCenter |-> costCenter,
     status |-> DerivedStatus(costCenter)]

\* rows uploads and cost-center changes leave in the table: an expense, an
\* income, a row with amount 0, a row stored without a merchant
ShownRecords ==
    {Shows(Jan5, JSText(<<"C", "o", "f", "f", "e", "e">>), JSNum(0 - 450),
           "Checking", JSStr("Food")),
     Shows(Mar1, JSText(<<"S", "A", "L", "A", "R", "Y">>), JSNum(250000),
           "Savings", JSNull),
     Shows(Mar1, JSText(<<"F", "e", "e">>), JSNum(0), "Checking", JSNull),
     Shows(Jan5, JSNull, JSNum(1200), "Default", JSNull)}

\* the lists the page can have fetched
ShownLists ==
    {[i \in 1..Len(list) |-> [list[i] EXCEPT !.id = i]] :
        list \in UNION {[1..n -> ShownRecords] : n \in 0..MaxShown}}

\* a user is logged in and the page has fetched its lists
TotalsInit ==
    /\ tz = 0
    /\ pool = {}
    /\ storage = <<>>
    /\ req = [r \in Requests |-> Idle]
    /\ patch = NoPatch
    /\ line = NoRow
    /\ out = NoOut
    /\ env = JSUndef
    /\ \E list \in ShownLists :
          ui = [Mounted EXCEPT
                   !.isAuthenticated = TRUE,
                   !.isLoading = FALSE,
                   !.fetch = "done",
                   !.login = [n |-> 1, pc |-> "done",
                              password |-> "defaultpassword",
                              success |-> TRUE],
                   !.transactions = list,
                   !.costCenters = [i \in 1..Len(CostCenterTable) |->
                                       CostCenterTable[i].name],
                   !.mappings = MappingTable]

\* the onChange handlers of lines 355-374
SetStartDate(value) ==
    /\ ui.isAuthenticated
    /\ ui' = [ui EXCEPT !.startDate = value]
    /\ UNCHANGED <<tz, pool, storage, req, patch, line, out, env>>

SetEndDate(value) ==
    /\ ui.isAuthenticated
    /\ ui' = [ui EXCEPT !.endDate = value]
    /\ UNCHANGED <<tz, pool, storage, req, patch, line, out, env>>

SetFilterMerchant(value) ==
    /\ ui.isAuthenticated
    /\ ui' = [ui EXCEPT !.filterMerchant = value]
    /\ UNCHANGED <<tz, pool, storage, req, patch, line, out, env>>

SetFilterAccount(value) ==
    /\ ui.isAuthenticated
    /\ ui' = [ui EXCEPT !.filterAccount = value]
    /\ UNCHANGED <<tz, pool, storage, req, patch, line, out, env>>

SetFilterCostCenter(value) ==
    /\ ui.isAuthenticated
    /\ ui' = [ui EXCEPT !.filterCostCenter = value]
    /\ UNCHANGED <<tz, pool, storage, req, patch, line, out, env>>

SetFilterStatus(value) ==
    /\ ui.isAuthenticated
    /\ ui' = [ui EXCEPT !.filterStatus = value]
    /\ UNCHANGED <<tz, pool, storage, req, patch, line, out, env>>

\* the user sets one filter: a date or none, a text, an option of a select
TotalsNext ==
    \/ \E value \in {NoDate, Jan5, Mar1} : SetStartDate(value)
    \/ \E value \in {NoDate, Jan5, Mar1} : SetEndDate(value)
    \/ \E value \in {<<>>, <<"c", "o", "f">>, <<"S", "a", "l">>} :
          SetFilterMerchant(value)
    \/ \E value \in {"", "Checking"} : SetFilterAccount(value)
    \/ \E value \in {"", "Food"} : SetFilterCostCenter(value)
    \/ \E value \in {"", "Review Required"} : SetFilterStatus(value)

TotalsSpec == TotalsInit /\ [][TotalsNext]_vars

\* ------------------------------------------------------------------------
\* The summary of one upload, read off the handler's locals
\* ------------------------------------------------------------------------

Answer(r) == req[r].responses[1]

Answered(r, status) ==
    req[r].pc = "done" /\ req[r].responses # <<>> /\ Answer(r).status = status

\* the handler has computed existingHashes and newTransactions
Classified(r) ==
    req[r].pc = "inserting" \/ req[r].inserts > 0 \/ Answered(r, 200)

\* parsed.data.length
totalParsed(r) == Len(ParsedData(req[r].file))

\* newTransactions.length
newCount(r) == Len(req[r].newTransactions)

\* the rows of normalizedData the filter of line 178 leaves out
duplicateCount(r) ==
    Cardinality({i \in 1..Len(req[r].normalizedData) :
                    req[r].normalizedData[i].hash \in req[r].existingHashes})

\* the parsed rows the filter of line 170 drops: their amount is NaN
droppedCount(r) ==
    Cardinality({i \in 1..Len(req[r].file) :
                    /\ ~RowThrows(Parsed(req[r].file[i]))
                    /\ HashInput(Parsed(req[r].file[i])).amount.t = "nan"})

\* ------------------------------------------------------------------------
\* C1
\* ------------------------------------------------------------------------

\* C1 as stated: when an upload of a file has been answered 200 and the same
\* file is uploaded again afterwards, the second upload issues no insert, its
\* newCount is 0 and every parsed row counts as a duplicate
\* (duplicateCount = totalParsed).
C1_ReimportAllDuplicates ==
    \A q \in Requests, r \in Requests :
        (q < r /\ Answered(q, 200) /\ req[r].hasFile
           /\ req[r].file = req[q].file)
        => /\ req[r].inserts = 0
           /\ Answered(r, 200)
              => /\ Answer(r).count = 0
                 /\ duplicateCount(r) = totalParsed(r)

\* C1 as amended: the second upload issues no insert, its newCount is 0 and
\* every row that the amount filter kept counts as a duplicate:
\* duplicateCount = totalParsed minus the rows dropped for a NaN amount.
C1_ReimportInsertsNothing ==
    \A q \in Requests, r \in Requests :
        (q < r /\ Answered(q, 200) /\ req[r].hasFile
           /\ req[r].file = req[q].file)
        => /\ req[r].inserts = 0
           /\ Answered(r, 200)
              => /\ Answer(r).count = 0
                 /\ newCount(r) = 0
                 /\ duplicateCount(r) = totalParsed(r) - droppedCount(r)

\* a file whose first upload stored rows has been uploaded a second time and
\* answered
C1_Witness ==
    \E q \in Requests, r \in Requests :
        /\ q < r /\ Answered(q, 200) /\ Answered(r, 200)
        /\ req[r].hasFile /\ req[r].file = req[q].file
        /\ newCount(q) > 0
        /\ duplicateCount(r) > 0

\* ------------------------------------------------------------------------
\* C2
\* ------------------------------------------------------------------------

\* C2: when two rows of one upload have the same hash and the hash is not in
\* storage, only one row with that hash is in the set submitted for insertion.
C2_IntraBatchDedup ==
    \A r \in Requests :
        Classified(r) =>
            LET nd == req[r].normalizedData
                new == req[r].newTransactions
            IN  \A i \in 1..Len(nd), j \in 1..Len(nd) :
                    (i < j /\ nd[i].hash = nd[j].hash
                       /\ nd[i].hash \notin req[r].existingHashes)
                    => Cardinality({k \in 1..Len(new) :
                                       new[k].hash = nd[i].hash}) = 1

\* ------------------------------------------------------------------------
\* C3
\* ------------------------------------------------------------------------

\* C3: when uploads run one after another, storage never holds two records
\* with the same hash.
C3_NoRepeatedHash ==
    \A i \in 1..Len(storage), j \in 1..Len(storage) :
        i # j => storage[i].hash # storage[j].hash

\* ------------------------------------------------------------------------
\* C4
\* ------------------------------------------------------------------------

\* two parsed rows that write the same calendar day in two ways and agree on
\* merchant, amount and account
SameTransaction(a, b) ==
    /\ a.Date # b.Date
    /\ NewDate(a.Date).valid /\ NewDate(b.Date).valid
    /\ NewDate(a.Date).y = NewDate(b.Date).y
    /\ NewDate(a.Date).m = NewDate(b.Date).m
    /\ NewDate(a.Date).d = NewDate(b.Date).d
    /\ HashInput(a).merchant = HashInput(b).merchant
    /\ HashInput(a).amount = HashInput(b).amount
    /\ HashInput(a).account = HashInput(b).account

\* C4: an upload of two rows that are the same transaction with the date in
\* two accepted formats gives both the same canonical date and the same hash
\* and, the hash being new, inserts one record (newCount 1, duplicateCount 1).
C4_DateFormatsCollapse ==
    \A r \in Requests :
        (/\ Classified(r)
         /\ Len(req[r].file) = 2
         /\ SameTransaction(Parsed(req[r].file[1]), Parsed(req[r].file[2]))
         /\ Len(req[r].normalizedData) = 2)
        => LET nd == req[r].normalizedData
           IN  /\ nd[1].date = nd[2].date
               /\ nd[1].hash = nd[2].hash
               /\ req[r].existingHashes = {} => newCount(r) = 1

\* ------------------------------------------------------------------------
\* C5
\* ------------------------------------------------------------------------

\* C5: any two normalised rows, of any upload and at any position, that are
\* equal on the normalised date, merchant, amount and account have the same
\* hash.
C5_HashOfNormalizedTuple ==
    \A q \in Requests, r \in Requests :
        \A i \in 1..Len(req[q].normalizedData),
           j \in 1..Len(req[r].normalizedData) :
            LET a == req[q].normalizedData[i]
                b == req[r].normalizedData[j]
            IN  (a.date = b.date /\ a.merchant = b.merchant
                   /\ a.amount = b.amount /\ a.account = b.account)
                => a.hash = b.hash

\* ------------------------------------------------------------------------
\* C6
\* ------------------------------------------------------------------------

\* C6: an upload with a row whose date cannot be parsed and a row that is
\* valid is answered 200, never 500.
C6_BadDateDoesNotAbort ==
    \A r \in Requests :
        (/\ req[r].pc = "done" /\ req[r].hasFile
         /\ \E i \in 1..Len(req[r].file) : DateThrows(Parsed(req[r].file[i]))
         /\ \E i \in 1..Len(req[r].file) : ~RowThrows(Parsed(req[r].file[i])))
        => ~(Answer(r).status = 500 /\ Answer(r).error = "Invalid time value")

\* ------------------------------------------------------------------------
\* C7
\* ------------------------------------------------------------------------

BlankMerchant(row) ==
    ~Truthy(row.Description) /\ ~Truthy(row.Merchant)

ValidRow(row) ==
    /\ ~RowThrows(row)
    /\ ~BlankMerchant(row)
    /\ HashInput(row).amount.t = "num"

\* C7: no record with an empty or missing merchant is submitted to storage,
\* and an upload of one blank-merchant row and one valid new row has
\* newCount 1.
C7_BlankMerchantRejected ==
    \A r \in Requests :
        Classified(r) =>
            LET new == req[r].newTransactions
                file == req[r].file
            IN  /\ \A k \in 1..Len(new) :
                       new[k].merchant.t = "str" /\ new[k].merchant.s # ""
                /\ (/\ Len(file) = 2
                    /\ \E i \in 1..2 :
                          /\ BlankMerchant(Parsed(file[i]))
                          /\ ValidRow(Parsed(file[3 - i]))
                    /\ req[r].existingHashes = {})
                   => newCount(r) = 1

\* ------------------------------------------------------------------------
\* C8
\* ------------------------------------------------------------------------

\* C8: an upload whose bulk insert returned an error is answered once, with
\* 500 and without a count, and has issued that one insert only.
C8_InsertFailureIsFatal ==
    \A r \in Requests :
        req[r].insertError
        => /\ req[r].pc = "done"
           /\ Len(req[r].responses) = 1
           /\ Answer(r).status = 500
           /\ Answer(r).count = NoCount
           /\ Answer(r).error = "Database insertion failed."
           /\ req[r].inserts = 1

\* the insert of an upload of valid rows has failed
C8_Witness ==
    \E r \in Requests :
        /\ req[r].insertError
        /\ req[r].pc = "done"
        /\ newCount(r) > 0

\* ------------------------------------------------------------------------
\* C9
\* ------------------------------------------------------------------------

\* C9: an upload issues at most one insert; the records of that insert are
\* the normalised rows whose hash the existence query did not return, all of
\* them and no other; after the 200 answer each of them is in storage.
C9_InsertsExactlyTheNewSet ==
    \A r \in Requests :
        LET nd == req[r].normalizedData
            new == req[r].newTransactions
        IN  /\ req[r].inserts <= 1
            /\ req[r].inserts = 1
               => /\ Len(new) > 0
                  /\ \A k \in 1..Len(new) :
                         /\ new[k].hash \notin req[r].existingHashes
                         /\ \E i \in 1..Len(nd) : nd[i] = new[k]
                  /\ \A i \in 1..Len(nd) :
                         nd[i].hash \notin req[r].existingHashes
                         => \E k \in 1..Len(new) : new[k] = nd[i]
                  /\ Len(new) =
                         Cardinality({i \in 1..Len(nd) :
                             nd[i].hash \notin req[r].existingHashes})
                  /\ Answered(r, 200)
                     => \A k \in 1..Len(new) :
                            \E m \in 1..Len(storage) :
                                storage[m].hash = new[k].hash

\* an upload has inserted some rows of its file and left out others whose
\* hash was already stored
C9_Witness ==
    \E r \in Requests :
        /\ Answered(r, 200)
        /\ req[r].inserts = 1
        /\ req[r].existingHashes # {}
        /\ newCount(r) < Len(req[r].normalizedData)

\* ------------------------------------------------------------------------
\* C10
\* ------------------------------------------------------------------------

\* C10: an upload whose file is normalised without an exception issues one
\* existence query, for the hashes of all rows of normalizedData, and issues
\* its insert only after the query has answered; no upload issues more than
\* one query, whatever the number of its rows.
C10_OneBulkExistenceQuery ==
    \A r \in Requests :
        LET nd == req[r].normalizedData
        IN  /\ req[r].queries <= 1
            /\ (req[r].pc # "idle" /\ req[r].hasFile
                  /\ FirstThrow(req[r].file) = 0)
               => /\ req[r].queries = 1
                  /\ req[r].queried = [i \in 1..Len(nd) |-> nd[i].hash]
                  /\ Len(nd) = totalParsed(r) - droppedCount(r)
            /\ req[r].inserts > 0
               => req[r].queries = 1 /\ req[r].pc # "querying"

\* an upload of two rows has issued its insert after one query
C10_Witness ==
    \E r \in Requests :
        /\ Len(req[r].normalizedData) = 2
        /\ req[r].queries = 1
        /\ req[r].inserts = 1

\* ------------------------------------------------------------------------
\* C11
\* ------------------------------------------------------------------------

Hashes(records) == {records[i].hash : i \in 1..Len(records)}

StoredWith(h) == {i \in 1..Len(storage) : storage[i].hash = h}

\* C11: nothing stands between the existence query of one upload and the
\* insert of another: when two uploads have both found a hash absent and both
\* inserts have succeeded, storage holds a record with that hash for each.
C11_BothRacersInsert ==
    \A q \in Requests, r \in Requests :
        (q # r /\ Answered(q, 200) /\ Answered(r, 200))
        => \A h \in Hashes(req[q].newTransactions)
                     \cap Hashes(req[r].newTransactions) :
               Cardinality(StoredWith(h)) >= 2

\* two overlapping uploads, neither with a repeated row, have both found the
\* shared hash absent and both inserted it: storage holds it twice
C11_Witness ==
    \E q \in Requests, r \in Requests :
        /\ q < r /\ Answered(q, 200) /\ Answered(r, 200)
        /\ Len(req[q].file) = 1 /\ Len(req[r].file) = 1
        /\ req[q].existingHashes = {} /\ req[r].existingHashes = {}
        /\ \E h \in Hashes(req[q].newTransactions) :
              /\ h \in Hashes(req[r].newTransactions)
              /\ Cardinality(StoredWith(h)) = 2

\* ------------------------------------------------------------------------
\* C12
\* ------------------------------------------------------------------------

NonEmpty(v) == v.t = "str" /\ v.s # ""

\* C12: every stored record has status Processed if its costCenter is not
\* empty and Review Required otherwise.
C12_StatusFollowsCostCenter ==
    \A i \in 1..Len(storage) :
        storage[i].status =
            IF NonEmpty(storage[i].costCenter) THEN "Processed"
            ELSE "Review Required"

\* ------------------------------------------------------------------------
\* C13
\* ------------------------------------------------------------------------

\* the fields a cost-center edit leaves alone
Identity(t) ==
    [id |-> t.id, hash |-> t.hash, date |-> t.date, merchant |-> t.merchant,
     amount |-> t.amount, account |-> t.account]

\* C13: a PATCH step keeps the number of records, every field but costCenter
\* and status of the record with its id, and every other record, so that an
\* upload of a file that an earlier upload has stored still inserts nothing.
C13_PatchKeepsIdentity ==
    /\ [][patch' # patch
            => /\ Len(storage') = Len(storage)
               /\ \A i \in 1..Len(storage) :
                      IF storage[i].id = patch'.id
                      THEN Identity(storage'[i]) = Identity(storage[i])
                      ELSE storage'[i] = storage[i]]_vars
    /\ [](\A q \in Requests, r \in Requests :
              (q < r /\ Answered(q, 200) /\ Answered(r, 200)
                 /\ req[r].file = req[q].file)
              => newCount(r) = 0)

\* the cost center of one of two stored records has been set and a later
\* upload of its row has found it stored
C13_Witness ==
    /\ patch.n >= 1 /\ patch.status = 200
    /\ patch.costCenter = JSStr("Food")
    /\ Len(storage) >= 2 /\ patch.id <= Len(storage)
    /\ storage[patch.id].costCenter = JSStr("Food")
    /\ \E r \in Requests :
          /\ r > patch.arrived
          /\ Answered(r, 200)
          /\ newCount(r) = 0
          /\ storage[patch.id].hash \in req[r].existingHashes

\* ------------------------------------------------------------------------
\* C14
\* ------------------------------------------------------------------------

\* the stage of the pipeline in which the error of a 500 answer was raised
FailedStage(r) ==
    CASE Answer(r).error = "Invalid time value" -> "Normalizing"
      [] Answer(r).error = "Invalid character" -> "Hashing"
      [] Answer(r).error = "Cannot read properties of null" -> "Filtering"
      [] Answer(r).error = "Database insertion failed." -> "Persisting"
      [] OTHER -> "Parsing"

\* C14: an upload that is answered 500 has failed in Parsing or in
\* Persisting, never in Mapping, Normalizing, Hashing or Filtering.
C14_FailedOnlyFromParsing ==
    \A r \in Requests :
        Answered(r, 500) => FailedStage(r) \in {"Parsing", "Persisting"}

\* ------------------------------------------------------------------------
\* C15
\* ------------------------------------------------------------------------

Mapped == out.stage \in {"mapped", "kept", "dropped"}

\* C15: a line with only the Description column populated is mapped with
\* that value as merchant; a line with neither Merchant nor Description
\* populated is rejected: it is not kept in normalizedData.
C15_MerchantAliases ==
    /\ (Mapped /\ Truthy(out.cells.Description)
          /\ ~Truthy(out.cells.Merchant))
       => out.value.merchant = out.cells.Description
    /\ (out.stage # "line" /\ BlankMerchant(out.cells))
       => out.stage # "kept"

\* ------------------------------------------------------------------------
\* C16
\* ------------------------------------------------------------------------

Present(v) == v.t \notin {"undef", "null"}

\* C16: when both Merchant and Description are present the merchant is the
\* Merchant cell, when both Amount and Debit are present the amount is the
\* number of the Amount cell, and the hash is made of the same values as the
\* stored fields.
C16_FirstAliasWins ==
    Mapped
    => /\ (Present(out.cells.Merchant) /\ Present(out.cells.Description))
          => out.value.merchant = out.cells.Merchant
       /\ (Present(out.cells.Amount) /\ Present(out.cells.Debit))
          => out.value.amount = parseFloat(out.cells.Amount)
       /\ out.value.hash.merchant = JSONValue(out.value.merchant)
       /\ out.value.hash.amount = JSONValue(out.value.amount)

\* ------------------------------------------------------------------------
\* C17
\* ------------------------------------------------------------------------

\* C17: no row whose amount is not a finite number is in the existence query
\* or in the insert of an upload, and the rows with a finite amount are in
\* the query.
C17_NonFiniteAmountRejected ==
    \A r \in Requests :
        Classified(r) =>
            /\ \A i \in 1..Len(req[r].normalizedData) :
                   req[r].normalizedData[i].amount.t = "num"
            /\ \A k \in 1..Len(req[r].newTransactions) :
                   req[r].newTransactions[k].amount.t = "num"
            /\ Len(req[r].queried) =
                   Cardinality({i \in 1..Len(req[r].file) :
                       HashInput(Parsed(req[r].file[i])).amount.t = "num"})

\* ------------------------------------------------------------------------
\* C18
\* ------------------------------------------------------------------------

\* C18: an amount written with thousands separators normalises to the number
\* the text is without them, sign included, and its line is kept.
C18_ThousandsSeparators ==
    LET HasComma == \E i \in 1..Len(line.Amount) : line.Amount[i] = ","
        Stripped == SelectSeq(line.Amount, LAMBDA c : c # ",")
    IN  (Mapped /\ line.Amount # NoColumn /\ HasComma)
        => /\ out.value.amount = parseFloatText(Stripped)
           /\ out.stage # "dropped"

\* ------------------------------------------------------------------------
\* C19
\* ------------------------------------------------------------------------

NoAccount == line.Account \in {NoName, ""}

\* C19: a line without an account value is normalised with account
\* "Default", its hash is made with "Default" too, and the line is not
\* dropped unless its amount is NaN.
C19_AccountDefault ==
    (Mapped /\ NoAccount)
    => /\ out.value.account = JSStr("Default")
       /\ out.value.hash.account = JSStr("Default")
       /\ out.stage = "dropped" => out.value.amount.t = "nan"

\* a line without an Account column has been kept with account Default
C19_Witness ==
    /\ out.stage = "kept"
    /\ line.Account = NoName
    /\ out.value.account = JSStr("Default")

\* ------------------------------------------------------------------------
\* C20
\* ------------------------------------------------------------------------

\* C20: every record an upload submits has status Review Required and no
\* costCenter, and is stored with a null costCenter.
C20_NewRecordsNeedReview ==
    /\ \A r \in Requests :
           \A k \in 1..Len(req[r].newTransactions) :
               /\ req[r].newTransactions[k].status = "Review Required"
               /\ "costCenter" \notin DOMAIN req[r].newTransactions[k]
    /\ \A i \in 1..Len(storage) :
           /\ storage[i].status = "Review Required"
           /\ storage[i].costCenter = JSNull

\* an upload has stored records
C20_Witness ==
    \E r \in Requests :
        /\ Answered(r, 200)
        /\ newCount(r) > 0
        /\ Len(storage) >= newCount(r)

\* ------------------------------------------------------------------------
\* C21
\* ------------------------------------------------------------------------

\* the upload failed before its existence query: its rows could not be read
FailedBeforeQuery(r) == Answered(r, 500) /\ req[r].queries = 0

\* the upload read its rows and failed at the insert
FailedAtInsert(r) == Answered(r, 500) /\ req[r].insertError

InsertSetOf(file, table, tzHours) ==
    LET data == NormalizedData(file, tzHours)
        hashes == [i \in 1..Len(data) |-> data[i].hash]
    IN  NewTransactions(data, HashSet(SelectHashIn(table, hashes)))

\* C22: what an upload computes is a function of its file and of the table
\* at the time its existence query answers: a file with a row that throws is
\* answered 500 on arrival, the insert set is InsertSetOf the file and the
\* table whatever the other uploads did, and the insert appends that set; so
\* two uploads of the same file that found the same hashes have the same
\* insert set.
C22_NoCarryOver ==
    /\ [][\A r \in Requests :
            /\ (req[r].pc = "idle" /\ req'[r].pc # "idle" /\ req'[r].hasFile)
               => IF FirstThrow(req'[r].file) # 0
                  THEN /\ req'[r].pc = "done"
                       /\ req'[r].responses[1].status = 500
                       /\ storage' = storage
                  ELSE /\ req'[r].pc = "querying"
                       /\ req'[r].normalizedData
                              = NormalizedData(req'[r].file, tz)
            /\ (req[r].pc = "querying" /\ req'[r].pc = "inserting")
               => /\ req'[r].newTransactions
                         = InsertSetOf(req[r].file, storage, tz)
                  /\ req'[r].newTransactions # <<>>
            /\ (req[r].pc = "querying" /\ req'[r].pc = "done"
                  /\ req'[r].responses[1].status = 200)
               => /\ InsertSetOf(req[r].file, storage, tz) = <<>>
                  /\ req'[r].newTransactions = <<>>
            /\ (req[r].pc = "inserting" /\ req'[r].pc = "done"
                  /\ req'[r].responses[1].status = 200)
               => storage' = Inserted(storage, req[r].newTransactions)]_vars
    /\ [](\A q \in Requests, r \in Requests :
              (Classified(q) /\ Classified(r) /\ req[q].file = req[r].file
                 /\ req[q].existingHashes = req[r].existingHashes)
              => req[q].newTransactions = req[r].newTransactions)

\* a second upload of a file has computed the insert set of the first, whose
\* insert had failed
C22_Witness ==
    \E q \in Requests, r \in Requests :
        /\ q < r
        /\ req[q].file = req[r].file
        /\ FailedAtInsert(q)
        /\ Classified(r)
        /\ req[r].newTransactions # <<>>
        /\ req[r].newTransactions = req[q].newTransactions

\* ------------------------------------------------------------------------
\* C26
\* ------------------------------------------------------------------------

\* C26: a line with a valid date, a merchant, an account and a finite number
\* in its Amount column, zero included, is not dropped by the filter.
C26_ValidRowNotDropped ==
    (/\ out.stage # "line"
     /\ ~RowThrows(out.cells)
     /\ ~BlankMerchant(out.cells)
     /\ Truthy(out.cells.Account)
     /\ out.cells.Amount.t = "num")
    => out.stage # "dropped"

\* ------------------------------------------------------------------------
\* C28
\* ------------------------------------------------------------------------

\* C28: the step in which an upload answers 200 appends to the table as many
\* records as the answer reports; a reported 0 comes with no insert call and
\* an unchanged table; and the count of a 200 answer is the length of
\* newTransactions.
C28_ReportedCountIsInserted ==
    /\ [][\A r \in Requests :
            (req[r].pc # "done" /\ req'[r].pc = "done"
               /\ req'[r].responses[1].status = 200)
            => /\ Len(storage') = Len(storage) + req'[r].responses[1].count
               /\ SubSeq(storage', 1, Len(storage)) = storage
               /\ req'[r].responses[1].count = 0
                  => (req'[r].inserts = 0 /\ storage' = storage)]_vars
    /\ [](\A r \in Requests :
              Answered(r, 200)
              => /\ Answer(r).count = newCount(r)
                 /\ req[r].inserts = (IF Answer(r).count = 0 THEN 0 ELSE 1)
                 /\ Len(storage) >= Answer(r).count)

\* one upload has reported and stored two records and another has reported
\* none and made no insert call
C28_Witness ==
    \E q \in Requests, r \in Requests :
        /\ Answered(q, 200) /\ Answer(q).count = 2 /\ req[q].inserts = 1
        /\ Answered(r, 200) /\ Answer(r).count = 0 /\ req[r].inserts = 0
        /\ Len(req[r].file) > 0
        /\ Len(storage) = 2

\* ------------------------------------------------------------------------
\* C27
\* ------------------------------------------------------------------------

\* C27: an upload that has arrived is eventually answered, and an answered
\* upload has exactly one response: 400 without a file and without any
\* storage call, 500 when a row, the query or the insert threw, 200 when the
\* pipeline completed; an upload that is not answered yet has no response.
C27_ExactlyOneResponse ==
    /\ \A r \in Requests :
           (req[r].pc # "idle") ~> (req[r].pc = "done")
    /\ [](\A r \in Requests :
              /\ req[r].pc # "done" => req[r].responses = <<>>
              /\ req[r].pc = "done" =>
                    /\ Len(req[r].responses) = 1
                    /\ Answer(r).status \in {200, 400, 500}
                    /\ Answer(r).status = 400
                       <=> ~req[r].hasFile
                    /\ ~req[r].hasFile
                       => (req[r].queries = 0 /\ req[r].inserts = 0)
                    /\ Answer(r).status = 500
                       <=> \/ (req[r].hasFile /\ FirstThrow(req[r].file) # 0)
                           \/ Answer(r).error = "Cannot read properties of null"
                           \/ req[r].insertError
                    /\ Answer(r).status = 200
                       => (/\ req[r].queries = 1
                           /\ ~req[r].insertError
                           /\ Answer(r).count = newCount(r)))

\* an upload without a file has its one answer, 400, and an upload that went
\* as far as the insert has its one answer, 200 or 500
C27_Witness ==
    \E q \in Requests, r \in Requests :
        /\ Answered(q, 400) /\ Len(req[q].responses) = 1
        /\ req[r].pc = "done" /\ Len(req[r].responses) = 1
        /\ Answer(r).status \in {200, 500}
        /\ req[r].inserts = 1

\* ------------------------------------------------------------------------
\* C23
\* ------------------------------------------------------------------------

\* the record of the page's list and the record of the table with this id
Shown(id) ==
    ui.transactions[CHOOSE i \in 1..Len(ui.transactions) :
                        ui.transactions[i].id = id]

Stored(id) == storage[CHOOSE i \in 1..Len(storage) : storage[i].id = id]

\* the page shows the stored costCenter and status of this record
ShowsStored(id) ==
    /\ Shown(id).costCenter = Stored(id).costCenter
    /\ Shown(id).status = Stored(id).status

\* C23: after the only cost-center change made so far has ended without
\* being applied by the server, by a network error or by an error answer,
\* the page's list is the list from before the change and shows the stored
\* costCenter and status of the record.
C23_FailedSaveReverted ==
    \A k \in Changes :
        (/\ ui.changes[k].pc = "done"
         /\ ui.changes[k].outcome # 200
         /\ \A j \in Changes \ {k} : ui.changes[j].pc = "idle")
        => /\ ShowsStored(ui.changes[k].id)
           /\ ui.transactions = ui.changes[k].original

\* ------------------------------------------------------------------------
\* C24
\* ------------------------------------------------------------------------

\* C24: when a change of one record was in flight while a change of another
\* record started, the first was lost on the network and reverted and the
\* second was applied, then after both have ended the page shows the stored
\* costCenter and status of the second record.
C24_RevertKeepsOtherChange ==
    \A j \in Changes, k \in Changes :
        (/\ j \in ui.changes[k].during
         /\ ui.changes[j].id # ui.changes[k].id
         /\ ui.changes[j].pc = "done" /\ ui.changes[j].outcome = 0
         /\ ui.changes[k].pc = "done" /\ ui.changes[k].outcome = 200)
        => ShowsStored(ui.changes[k].id)

\* ------------------------------------------------------------------------
\* C25
\* ------------------------------------------------------------------------

ListsEmpty ==
    ui.transactions = <<>> /\ ui.costCenters = <<>> /\ ui.mappings = <<>>

\* C29: isAuthenticated is set only by the step in which the server answers
\* success to the submitted password, which is then the configured one; the
\* fetch on load starts and the lists are filled only when isAuthenticated;
\* after a login that failed isAuthenticated is false and the lists are
\* empty.
C29_DataOnlyAfterLogin ==
    /\ [][(ui'.isAuthenticated /\ ~ui.isAuthenticated)
            => /\ ui.login.pc = "sent"
               /\ ui'.login.success
               /\ JSStr(ui.login.password) = CORRECT_PASSWORD]_vars
    /\ [](/\ ui.isAuthenticated
             => (/\ ui.login.success
                 /\ JSStr(ui.login.password) = CORRECT_PASSWORD)
          /\ (~ListsEmpty \/ ui.fetch # "idle") => ui.isAuthenticated
          /\ (ui.login.pc = "done" /\ ~ui.login.success)
             => (~ui.isAuthenticated /\ ListsEmpty))

\* after a refused password the configured one has been accepted and the
\* three lists have been fetched
C29_Witness ==
    /\ env = JSStr("secret")
    /\ ui.login.n = 2 /\ ui.login.password = "secret"
    /\ ui.isAuthenticated
    /\ ui.fetch = "done"
    /\ ui.transactions = storage /\ Len(ui.transactions) = 2
    /\ ui.costCenters # <<>> /\ ui.mappings # <<>>

\* ------------------------------------------------------------------------
\* C30
\* ------------------------------------------------------------------------

RECURSIVE SumOf(_)
SumOf(numbers) ==
    IF numbers = <<>> THEN 0 ELSE Head(numbers) + SumOf(Tail(numbers))

\* the amounts of the records of the list, null counted as 0
Amounts(list) == [i \in 1..Len(list) |-> Addend(list[i].amount)]

NoFilter ==
    /\ ui.startDate = NoDate /\ ui.endDate = NoDate
    /\ ui.filterMerchant = <<>> /\ ui.filterAccount = ""
    /\ ui.filterCostCenter = "" /\ ui.filterStatus = ""

\* C30: for every list and every setting of the filters the page renders,
\* totalIncome is the sum of the amounts above 0 of the filtered records,
\* totalExpenses the sum of the others, netSavings the sum of all, and the
\* filtered list is a sub-list of the list in the same order, the whole list
\* when no filter is set.
C30_TotalsOfFilteredList ==
    /\ ~RenderThrows
    /\ totalIncome
         = SumOf(SelectSeq(Amounts(filteredTransactions), LAMBDA a : a > 0))
    /\ totalExpenses
         = SumOf(SelectSeq(Amounts(filteredTransactions), LAMBDA a : a <= 0))
    /\ netSavings = SumOf(Amounts(filteredTransactions))
    /\ \E at \in [1..Len(filteredTransactions) -> 1..Len(ui.transactions)] :
          /\ \A i \in 1..Len(filteredTransactions) :
                 ui.transactions[at[i]] = filteredTransactions[i]
          /\ \A i \in 1..Len(filteredTransactions),
                j \in 1..Len(filteredTransactions) :
                 i < j => at[i] < at[j]
    /\ NoFilter => filteredTransactions = ui.transactions

=============================================================================
